---- MODULE Spec2Model ----
(***************************************************************************)
(* CharacterFunctions (src/text/juce_CharacterFunctions.h): the numeric    *)
(* parsers getDoubleValue and getIntValue, the comparison and search       *)
(* primitives and the transcoding copies, as operators over a buffer of    *)
(* code points, and a state machine that applies them to bounded inputs.   *)
(*                                                                         *)
(* A buffer is a sequence of code points: the text, its terminator 0 and   *)
(* whatever memory follows the terminator.  A cursor is an index into the  *)
(* buffer.  Every operator that reads the buffer also reports hi, the      *)
(* highest index it read.                                                  *)
(*                                                                         *)
(* A double is an IEEE 754 binary64 value and every operation on doubles   *)
(* rounds to nearest, ties to even; an int is a 32-bit two's complement    *)
(* integer.  Signed integer overflow is undefined behaviour: an operator   *)
(* that meets it reports ub, and the action that applied it then either    *)
(* returns what the wrapped arithmetic gives, or some other value of the   *)
(* type, or does not return at all (a trapping build aborts).              *)
(***************************************************************************)
EXTENDS Integers, Sequences, FiniteSets, TLC

VARIABLES
    kind,   \* which family the input was drawn from: "num", "lex", "copy"
    mem,    \* the caller's source buffer
    mem2,   \* the second buffer (s2 of compare, needle of indexOf)
    text,   \* the caller's cursor into mem, passed to the operation
    pc,     \* "ready", the name of the operation that has returned, or "abort"
    arg,    \* the integer argument of the operation (width, maxChars, ...)
    enc,    \* destination encoding of a copy: 8, 16 or 32
    out     \* what the operation returned

vars == <<kind, mem, mem2, text, pc, arg, enc, out>>

---------------------------------------------------------------------------
(* Code points the source names as character literals.                     *)
CH_MINUS == 45
CH_PLUS == 43
CH_DOT == 46
CH_0 == 48
CH_9 == 57
CH_e == 101
CH_E == 69
CH_n == 110
CH_N == 78
CH_a == 97
CH_A == 65
CH_i == 105
CH_I == 73
CH_f == 102
CH_F == 70
CH_SPACE == 32
CH_TAB == 9
CH_z == 122
CH_Z == 90

Max(a, b) == IF a >= b THEN a ELSE b
Min(a, b) == IF a <= b THEN a ELSE b

---------------------------------------------------------------------------
(* Character classification and the cursor's capability set.  These live   *)
(* in the character-pointer classes and in the out-of-line part of         *)
(* CharacterFunctions; only their declarations and uses are in the header. *)
(* The cursor is a bare position: advancing always moves by one code       *)
(* point, whatever is stored there, so that an algorithm that failed to    *)
(* stop at the terminator would be seen to read behind it.                 *)

isDigit(c) == c >= CH_0 /\ c <= CH_9

isWhitespace(c) == c = CH_SPACE \/ (c >= CH_TAB /\ c <= 13)

toUpperCase(c) == IF c >= CH_a /\ c <= CH_z THEN c - 32 ELSE c

toLowerCase(c) == IF c >= CH_A /\ c <= CH_Z THEN c + 32 ELSE c

\* operator* : the code point at position p
Deref(m, p) == IF p \in DOMAIN m THEN m[p] ELSE 0

\* the index of the terminator: the first 0 of the buffer
TermIdx(m) == CHOOSE i \in DOMAIN m : m[i] = 0 /\ \A j \in 1..(i - 1) : m[j] # 0

\* CharPointer::length(): the number of code points before the terminator
RECURSIVE lengthFrom(_, _)
lengthFrom(m, p) == IF Deref(m, p) = 0 THEN 0 ELSE 1 + lengthFrom(m, p + 1)

\* getBytesRequiredFor: bytes one code point takes in the encoding
getBytesRequiredFor(e, c) ==
    IF e = 8 THEN (IF c < 128 THEN 1 ELSE IF c < 2048 THEN 2
                   ELSE IF c < 65536 THEN 3 ELSE 4)
    ELSE IF e = 16 THEN (IF c >= 65536 THEN 4 ELSE 2)
    ELSE 4

---------------------------------------------------------------------------
(* Natural numbers of any size: a sequence of limbs in base 2^14, least    *)
(* significant first, with no zero limb at the top; <<>> is 0.             *)

LimbBits == 14
LimbBase == 16384

Limb(a, i) == IF i \in DOMAIN a THEN a[i] ELSE 0

RECURSIVE Trim(_)
Trim(a) == IF a # <<>> /\ a[Len(a)] = 0 THEN Trim(SubSeq(a, 1, Len(a) - 1)) ELSE a

\* carries (or borrows) the column sums cols into limbs; x is [i, carry,
\* acc], acc the limbs below column i
RECURSIVE Propagate(_, _)
Propagate(cols, x) ==
    IF x.i > Len(cols) /\ x.carry = 0 THEN x.acc
    ELSE Propagate(cols,
           [i |-> x.i + 1,
            carry |-> (Limb(cols, x.i) + x.carry) \div LimbBase,
            acc |-> Append(x.acc, (Limb(cols, x.i) + x.carry) % LimbBase)])

NatOf(cols) == Trim(Propagate(cols, [i |-> 1, carry |-> 0, acc |-> <<>>]))

\* the natural number n, 0 <= n < 2^31
NatOfInt(n) == NatOf(<<n>>)

BAdd(a, b) == NatOf([i \in 1..Max(Len(a), Len(b)) |-> Limb(a, i) + Limb(b, i)])

\* a - b, for a >= b
BSub(a, b) == NatOf([i \in 1..Len(a) |-> a[i] - Limb(b, i)])

\* a * c, for 0 <= c <= 2^14
BMulSmall(a, c) == NatOf([i \in 1..Len(a) |-> a[i] * c])

RECURSIVE ColumnSum(_, _, _, _)
ColumnSum(a, b, k, i) ==
    IF i > Len(a) \/ i > k THEN 0
    ELSE a[i] * Limb(b, k + 1 - i) + ColumnSum(a, b, k, i + 1)

\* a * b, for a or b of at most 4 limbs
BMul(a, b) ==
    IF a = <<>> \/ b = <<>> THEN <<>>
    ELSE NatOf([k \in 1..(Len(a) + Len(b)) |-> ColumnSum(a, b, k, 1)])

RECURSIVE CmpFrom(_, _, _)
CmpFrom(a, b, i) ==
    IF i = 0 THEN 0
    ELSE IF a[i] # b[i] THEN (IF a[i] < b[i] THEN -1 ELSE 1)
    ELSE CmpFrom(a, b, i - 1)

\* -1, 0 or 1 as a < b, a = b or a > b
BCmp(a, b) ==
    IF Len(a) # Len(b) THEN (IF Len(a) < Len(b) THEN -1 ELSE 1)
    ELSE CmpFrom(a, b, Len(a))

RECURSIVE SmallBitLen(_)
SmallBitLen(n) == IF n = 0 THEN 0 ELSE 1 + SmallBitLen(n \div 2)

\* the number of bits of a: the least L with a < 2^L
BitLen(a) ==
    IF a = <<>> THEN 0 ELSE LimbBits * (Len(a) - 1) + SmallBitLen(a[Len(a)])

\* a * 2^k
BShl(a, k) ==
    IF a = <<>> THEN <<>>
    ELSE [i \in 1..(k \div LimbBits) |-> 0] \o BMulSmall(a, 2^(k % LimbBits))

\* a \div 2^k
BShr(a, k) ==
    IF k \div LimbBits >= Len(a) THEN <<>>
    ELSE Trim([i \in 1..(Len(a) - (k \div LimbBits)) |->
                 (a[i + (k \div LimbBits)] \div 2^(k % LimbBits))
                   + (Limb(a, i + (k \div LimbBits) + 1) % 2^(k % LimbBits))
                       * (LimbBase \div 2^(k % LimbBits))])

\* bit j of a, bit 0 the least significant
Bit(a, j) == (Limb(a, (j \div LimbBits) + 1) \div 2^(j % LimbBits)) % 2

\* some bit of a below bit j is set
LowBitsSet(a, j) ==
    \/ \E i \in 1..Min(j \div LimbBits, Len(a)) : a[i] # 0
    \/ Limb(a, (j \div LimbBits) + 1) % 2^(j % LimbBits) # 0

---------------------------------------------------------------------------
(* double: IEEE 754 binary64, round to nearest, ties to even.  A finite    *)
(* non-negative double is [k |-> "fin", m, e], the number m * 2^e, m a     *)
(* natural number below 2^53: m has 53 bits and -1074 <= e <= 971 for a    *)
(* normal number, e = -1074 and fewer bits for a subnormal one, m = <<>>   *)
(* and e = 0 for zero.  The sign bit is kept apart: every double the       *)
(* parser computes with is non-negative, the sign is applied to the        *)
(* returned value only.                                                    *)

MantissaBits == 53
MinExponent == -1074
MaxExponent == 971

DZero == [k |-> "fin", m |-> <<>>, e |-> 0]
DInf == [k |-> "inf", m |-> <<>>, e |-> 0]
DNaN == [k |-> "nan", m |-> <<>>, e |-> 0]

\* the double m * 2^e, for m of at most 53 bits: infinity beyond the largest
Finite(m, e) == IF e > MaxExponent THEN DInf ELSE [k |-> "fin", m |-> m, e |-> e]

\* the double m * 2^e, for m of at most 54 bits, a 54-bit m being 2^53
Pack(m, e) ==
    IF m = <<>> THEN DZero
    ELSE IF BitLen(m) > MantissaBits THEN Finite(BShr(m, 1), e + 1)
    ELSE Finite(m, e)

\* q, or q + 1 when the bits shifted out of q are more than half of its last
\* place, or exactly half (half and no more) and q is odd
RoundNearestEven(q, half, more) ==
    IF half /\ (more \/ Bit(q, 0) = 1) THEN BAdd(q, <<1>>) ELSE q

\* the double nearest to (n + f) * 2^e that is a multiple of 2^e1
ScaleTo(n, e, e1, sticky) ==
    IF e1 <= e THEN Pack(BShl(n, e - e1), e1)
    ELSE Pack(RoundNearestEven(BShr(n, e1 - e), Bit(n, e1 - e - 1) = 1,
                               sticky \/ LowBitsSet(n, e1 - e - 1)), e1)

\* the double nearest to (n + f) * 2^e, n a natural number, 0 <= f < 1 and
\* f # 0 iff sticky; when sticky, n has at least 55 bits
RoundToDouble(n, e, sticky) ==
    IF n = <<>> THEN DZero
    ELSE ScaleTo(n, e, Max(e + BitLen(n) - MantissaBits, MinExponent), sticky)

\* (double) n, n a natural number
DOfNat(n) == RoundToDouble(n, 0, FALSE)

\* (double) n, 0 <= n < 2^31
DOfInt(n) == DOfNat(NatOfInt(n))

DOne == DOfInt(1)
DTen == DOfInt(10)

\* m1 * 2^e1 + m2 * 2^e2, rounded, for lo the lesser of e1 and e2
AddAligned(m1, e1, m2, e2, lo) ==
    RoundToDouble(BAdd(BShl(m1, e1 - lo), BShl(m2, e2 - lo)), lo, FALSE)

\* x + y
DAdd(x, y) ==
    IF x.k = "nan" \/ y.k = "nan" THEN DNaN
    ELSE IF x.k = "inf" \/ y.k = "inf" THEN DInf
    ELSE AddAligned(x.m, x.e, y.m, y.e, Min(x.e, y.e))

\* x * y
DMul(x, y) ==
    IF x.k = "nan" \/ y.k = "nan" THEN DNaN
    ELSE IF x.k = "inf" \/ y.k = "inf"
    THEN (IF x = DZero \/ y = DZero THEN DNaN ELSE DInf)
    ELSE RoundToDouble(BMul(x.m, y.m), x.e + y.e, FALSE)

\* the quotient (below 2^n) and the remainder of r * 2^n by d, for r < d
\* and n <= 14, bit by bit from the top; r2 is twice the remainder so far
RECURSIVE DivBits(_, _, _)
RECURSIVE DivStep(_, _, _)
DivStep(r2, d, n) ==
    IF BCmp(r2, d) >= 0
    THEN [DivBits(BSub(r2, d), d, n - 1) EXCEPT !.q = @ + 2^(n - 1)]
    ELSE DivBits(r2, d, n - 1)

DivBits(r, d, n) ==
    IF n = 0 THEN [q |-> 0, r |-> r] ELSE DivStep(BMulSmall(r, 2), d, n)

\* the quotient (limbs) and the remainder of r * 2^(14 * n) by d, for
\* r < d, limb by limb from the top; y is the top limb and what it left
RECURSIVE DivLimbs(_, _, _)
RECURSIVE DivRest(_, _, _)
DivRest(y, d, n) == [DivLimbs(y.r, d, n - 1) EXCEPT !.q = Append(@, y.q)]

DivLimbs(r, d, n) ==
    IF n = 0 THEN [q |-> <<>>, r |-> r] ELSE DivRest(DivBits(r, d, LimbBits), d, n)

\* the limbs of the quotient computed after its leading bit
QuotientLimbs == 4

\* the double nearest to (q + f) * 2^e, q the limbs d.q below the limbs
\* top, f # 0 iff the remainder d.r is not 0
RoundQuotient(d, top, e) == RoundToDouble(Trim(d.q \o top), e, d.r # <<>>)

\* a / b * 2^e rounded, for a and b of 53 bits
DivAligned(a, b, e) ==
    RoundQuotient(DivLimbs(IF BCmp(a, b) >= 0 THEN BSub(a, b) ELSE a, b, QuotientLimbs),
                  IF BCmp(a, b) >= 0 THEN <<1>> ELSE <<>>,
                  e - LimbBits * QuotientLimbs)

\* x / y
DDiv(x, y) ==
    IF x.k = "nan" \/ y.k = "nan" THEN DNaN
    ELSE IF x.k = "inf" THEN (IF y.k = "inf" THEN DNaN ELSE DInf)
    ELSE IF y.k = "inf" THEN DZero
    ELSE IF y = DZero THEN (IF x = DZero THEN DNaN ELSE DInf)
    ELSE IF x = DZero THEN DZero
    ELSE DivAligned(BShl(x.m, MantissaBits - BitLen(x.m)),
                    BShl(y.m, MantissaBits - BitLen(y.m)),
                    (x.e + BitLen(x.m)) - (y.e + BitLen(y.m)))

\* x > y
DGT(x, y) ==
    IF x.k = "nan" \/ y.k = "nan" THEN FALSE
    ELSE IF x.k = "inf" THEN y.k # "inf"
    ELSE IF y.k = "inf" THEN FALSE
    ELSE IF x = DZero THEN FALSE
    ELSE IF y = DZero THEN TRUE
    ELSE IF x.e # y.e THEN x.e > y.e
    ELSE BCmp(x.m, y.m) > 0

---------------------------------------------------------------------------
(* int: 32 bits, two's complement.  Each operator gives v, the result of   *)
(* the wrapped arithmetic, and ub, whether the arithmetic of the integers  *)
(* leaves the range of int (undefined behaviour).  IntType of getIntValue  *)
(* has w bits, w one of 8, 16 and 32; the wrapped arithmetic is carried    *)
(* out on the two halves of the value so that no intermediate exceeds 32   *)
(* bits.                                                                   *)

MaxInt32 == 2147483647
MinInt32 == -MaxInt32 - 1

Pow2(k) == CASE k = 4 -> 16 [] k = 8 -> 256 [] k = 16 -> 65536

\* the value of hi * 2^(w/2) + lo as a signed w-bit integer, hi reduced
\* modulo 2^(w/2) into the signed range
Signed(hiHalf, loHalf, w) ==
    LET H == Pow2(w \div 2)
        h == ((hiHalf + (H \div 2)) % H) - (H \div 2)
    IN h * H + loHalf

\* v * 10 + digit, wrapped to w bits
WrapMulAdd(v, digit, w) ==
    LET H == Pow2(w \div 2)
        lo == v % H
        hi == v \div H
        t == lo * 10 + digit
    IN Signed(hi * 10 + (t \div H), t % H, w)

\* -v, wrapped to w bits
WrapNeg(v, w) ==
    LET H == Pow2(w \div 2)
        lo == v % H
        hi == v \div H
    IN IF lo = 0 THEN Signed(-hi, 0, w) ELSE Signed(-hi - 1, H - lo, w)

\* v * 10 + digit in int: v * 10 or the sum leaves the range
MulAddOverflows(v, digit) ==
    \/ v > MaxInt32 \div 10
    \/ v < -(MaxInt32 \div 10)
    \/ (v = MaxInt32 \div 10 /\ digit > MaxInt32 % 10)

\* a + b in int
IntAdd(a, b) ==
    IF b > 0 /\ a > MaxInt32 - b
    THEN [v |-> (a - MaxInt32 - 1) + (b - MaxInt32 - 1), ub |-> TRUE]
    ELSE IF b < 0 /\ a < MinInt32 - b
    THEN [v |-> (a + MaxInt32 + 1) + (b + MaxInt32 + 1), ub |-> TRUE]
    ELSE [v |-> a + b, ub |-> FALSE]

\* a - b in int, for b > INT_MIN
IntSub(a, b) == IntAdd(a, -b)

\* -a in int
IntNeg(a) == IF a = MinInt32 THEN [v |-> a, ub |-> TRUE] ELSE [v |-> -a, ub |-> FALSE]

---------------------------------------------------------------------------
(* CharacterFunctions::mulexp10 (value, exponent): value scaled by         *)
(* 10^exponent.  It is defined out of line: 10^|exponent| is built in a    *)
(* double by squaring, one factor for every bit set in |exponent|, and     *)
(* value is multiplied or divided by it once.                              *)

\* the loop: result *= power for every bit set in exponent, power squared
\* from one bit to the next while a bit is left; x is [result, power,
\* exponent]
RECURSIVE PowerLoop(_)
PowerLoop(x) ==
    IF x.exponent = 0 THEN x.result
    ELSE PowerLoop(
           [result |-> IF x.exponent % 2 = 1 THEN DMul(x.result, x.power)
                       ELSE x.result,
            power |-> IF x.exponent \div 2 = 0 THEN x.power
                      ELSE DMul(x.power, x.power),
            exponent |-> x.exponent \div 2])

\* negative ? (value / result) : (value * result)
Scale(value, result, negative) ==
    IF negative THEN DDiv(value, result) ELSE DMul(value, result)

\* -exponent is undefined for INT_MIN; wrapped it stays INT_MIN, whose only
\* bit set is bit 31
mulexp10(value, exponent) ==
    IF exponent = 0 THEN value
    ELSE IF value = DZero THEN DZero
    ELSE Scale(value,
               PowerLoop(IF exponent = MinInt32
                         THEN [result |-> DOne, power |-> DMul(DTen, DTen),
                               exponent |-> (MaxInt32 \div 2) + 1]
                         ELSE [result |-> DOne, power |-> DTen,
                               exponent |-> IF exponent < 0 THEN -exponent
                                            ELSE exponent]),
               exponent < 0)

---------------------------------------------------------------------------
(* findEndOfWhitespace: the position of the first code point at or after   *)
(* p that is not whitespace.  It reads every position from p up to and     *)
(* including the one it returns.                                           *)
RECURSIVE findEndOfWhitespace(_, _)
findEndOfWhitespace(m, p) ==
    IF isWhitespace(Deref(m, p)) THEN findEndOfWhitespace(m, p + 1) ELSE p

\* while (s.isDigit()) ++s : the position of the first non-digit at or after p
RECURSIVE skipDigits(_, _)
skipDigits(m, p) == IF isDigit(Deref(m, p)) THEN skipDigits(m, p + 1) ELSE p

---------------------------------------------------------------------------
(* getDoubleValue                                                          *)

maxSignificantDigits == 17

\* (double) ((std::numeric_limits<unsigned int>::max() - 9) / 10)
maxAccumulatorValue == DOfInt(429496728)

\* the locals of getDoubleValue after the sign switch; lane k of the source
\* is index k + 1 of result, accumulator, exponentAdjustment and
\* exponentAccumulator.  ub: undefined behaviour was met, ubHi: the highest
\* position read when it was first met
InitLocals(s, hi, isNegative) ==
    [ result |-> <<DZero, DZero>>, accumulator |-> <<DZero, DZero>>,
      exponentAdjustment |-> <<0, 0>>, exponentAccumulator |-> <<-1, -1>>,
      exponent |-> 0, decPointIndex |-> 0, digit |-> 0, lastDigit |-> 0,
      numSignificantDigits |-> 0, isNegative |-> isNegative,
      digitsFound |-> FALSE, s |-> s, hi |-> hi, done |-> FALSE,
      ub |-> FALSE, ubHi |-> 0 ]

\* (the look-ahead, were both code points read before either is tested)
LookAheadEager(m, s, x1, X1, x2, X2) ==
    LET c1 == Deref(m, s + 1)
        c2 == Deref(m, s + 2)
    IN [match |-> (c1 = x1 \/ c1 = X1) /\ (c2 = x2 \/ c2 = X2), hi |-> s + 2]

\* (s[1] == x1 || s[1] == X1) && (s[2] == x2 || s[2] == X2), with the
\* highest position the evaluation reads: s[2] is read only when s[1] matched
LookAhead(m, s, x1, X1, x2, X2) ==
    LET c1 == Deref(m, s + 1)
        c2 == Deref(m, s + 2)
    IN IF c1 = x1 \/ c1 = X1
       THEN [match |-> (c2 = x2 \/ c2 = X2), hi |-> s + 2]
       ELSE [match |-> FALSE, hi |-> s + 1]

\* (the rounding test, were every half rounded up)
RoundsHalfUp(digit, lastDigit) == digit >= 5

\* the rounding test applied to the first digit beyond the cap
RoundsUp(digit, lastDigit) ==
    digit > 5 \/ (digit = 5 /\ (lastDigit % 2) # 0)

\* if (accumulator[d] > maxAccumulatorValue) { result[d] = mulexp10 (...)
\* + accumulator[d]; accumulator[d] = 0; exponentAccumulator[d] = 0; }
FlushIfFull(L, d) ==
    IF DGT(L.accumulator[d], maxAccumulatorValue)
    THEN [L EXCEPT !.result[d] = DAdd(mulexp10(L.result[d], L.exponentAccumulator[d]),
                                      L.accumulator[d]),
                   !.accumulator[d] = DZero,
                   !.exponentAccumulator[d] = 0]
    ELSE L

\* accumulator[d] = accumulator[d] * 10 + digit; exponentAccumulator[d]++
Accumulate(L, d, digit) ==
    [L EXCEPT !.accumulator[d] = DAdd(DMul(L.accumulator[d], DTen), DOfInt(digit)),
              !.exponentAccumulator[d] = L.exponentAccumulator[d] + 1]

\* a significant digit within the cap
FoldDigit(L, d, digit) == Accumulate(FlushIfFull(L, d), d, digit)

\* the branch taken by every significant digit beyond the cap: round the
\* accumulator of the current lane, adjust the exponents, skip the digits
\* that follow
BeyondCap(m, L, d, digit, lastDigit) ==
    LET acc == IF RoundsUp(digit, lastDigit)
               THEN DAdd(L.accumulator[d], DOne)
               ELSE L.accumulator[d]
        q == skipDigits(m, L.s)
        adj0 == IF d = 1 THEN L.exponentAdjustment[1] + 1 + (q - L.s)
                ELSE L.exponentAdjustment[1]
        adj1 == IF d = 2 THEN L.exponentAdjustment[2] - 1
                ELSE L.exponentAdjustment[2]
    IN [L EXCEPT !.accumulator[d] = acc,
                 !.exponentAdjustment = <<adj0, adj1>>,
                 !.s = q, !.hi = Max(L.hi, q)]

\* one iteration of the for (;;) loop that scans the mantissa
ScanStep(m, L) ==
    LET c == Deref(m, L.s)
        d == L.decPointIndex + 1
    IN IF isDigit(c)
       THEN LET digit == c - CH_0
                L1 == [L EXCEPT !.lastDigit = L.digit, !.digit = digit,
                                !.digitsFound = TRUE, !.s = L.s + 1,
                                !.hi = Max(L.hi, L.s),
                                !.exponentAdjustment[2] =
                                    IF L.decPointIndex # 0 THEN @ + 1 ELSE @]
            IN IF L.numSignificantDigits = 0 /\ digit = 0
               THEN L1
               ELSE LET L2 == [L1 EXCEPT !.numSignificantDigits = @ + 1]
                    IN IF L2.numSignificantDigits > maxSignificantDigits
                       THEN BeyondCap(m, L2, d, digit, L1.lastDigit)
                       ELSE FoldDigit(L2, d, digit)
       ELSE IF L.decPointIndex = 0 /\ c = CH_DOT
       THEN LET L1 == [L EXCEPT !.s = L.s + 1, !.decPointIndex = 1,
                                !.hi = Max(L.hi, L.s)]
            IN IF L.numSignificantDigits > maxSignificantDigits
               THEN LET q == skipDigits(m, L1.s)
                    IN [L1 EXCEPT !.s = q, !.hi = Max(L1.hi, q), !.done = TRUE]
               ELSE L1
       ELSE [L EXCEPT !.hi = Max(L.hi, L.s), !.done = TRUE]

RECURSIVE ScanMantissa(_, _)
ScanMantissa(m, L) == IF L.done THEN L ELSE ScanMantissa(m, ScanStep(m, L))

\* result[k] = mulexp10 (result[k], exponentAccumulator[k]) + accumulator[k]
FlushLanes(L) ==
    [L EXCEPT !.result =
        << DAdd(mulexp10(L.result[1], L.exponentAccumulator[1]), L.accumulator[1]),
           IF L.decPointIndex # 0
           THEN DAdd(mulexp10(L.result[2], L.exponentAccumulator[2]), L.accumulator[2])
           ELSE L.result[2] >>]

\* while (s.isDigit()) exponent = (exponent * 10) + (s.getAndAdvance() - '0')
\* x is [s, exponent, ub, ubHi]
RECURSIVE ExponentDigits(_, _)
ExponentDigits(m, x) ==
    LET c == Deref(m, x.s)
    IN IF isDigit(c)
       THEN LET over == MulAddOverflows(x.exponent, c - CH_0)
            IN ExponentDigits(m,
                 [s |-> x.s + 1,
                  exponent |-> WrapMulAdd(x.exponent, c - CH_0, 32),
                  ub |-> x.ub \/ over,
                  ubHi |-> IF over /\ ~x.ub THEN x.s ELSE x.ubHi])
       ELSE x

\* exponent = -exponent when negativeExponent; x is what ExponentDigits
\* left, the undefined negation of INT_MIN is met after the last digit
SignedExponent(L, x, negativeExponent) ==
    [L EXCEPT !.s = x.s, !.hi = Max(L.hi, x.s),
              !.exponent = IF negativeExponent THEN IntNeg(x.exponent).v
                           ELSE x.exponent,
              !.ub = x.ub \/ (negativeExponent /\ IntNeg(x.exponent).ub),
              !.ubHi = IF x.ub THEN x.ubHi
                       ELSE IF negativeExponent /\ IntNeg(x.exponent).ub THEN x.s
                       ELSE 0]

\* the optional exponent: marker, sign, digits
ParseExponent(m, L) ==
    IF (Deref(m, L.s) = CH_e \/ Deref(m, L.s) = CH_E) /\ L.digitsFound
    THEN SignedExponent(L,
           ExponentDigits(m, [s |-> IF Deref(m, L.s + 1) = CH_MINUS
                                       \/ Deref(m, L.s + 1) = CH_PLUS
                                    THEN L.s + 2 ELSE L.s + 1,
                              exponent |-> 0, ub |-> FALSE, ubHi |-> 0]),
           Deref(m, L.s + 1) = CH_MINUS)
    ELSE [L EXCEPT !.hi = Max(L.hi, L.s)]

\* the class of a returned double
ClassOf(r) == IF r.k = "fin" THEN "num" ELSE r.k

\* return std::numeric_limits<double>::quiet_NaN()
NaNResult(L) == [class |-> "nan", neg |-> FALSE, val |-> DNaN]

\* return std::numeric_limits<double>::infinity()
InfResult(L) == [class |-> "inf", neg |-> FALSE, val |-> DInf]

\* exponent + exponentAdjustment[0] and exponent - exponentAdjustment[1]
NetExponents(L) ==
    <<IntAdd(L.exponent, L.exponentAdjustment[1]),
      IntSub(L.exponent, L.exponentAdjustment[2])>>

\* double r = mulexp10 (result[0], exponent + exponentAdjustment[0]);
\* if (decPointIndex != 0) r += mulexp10 (result[1], exponent - exponentAdjustment[1])
SumOfLanes(L) ==
    IF L.decPointIndex # 0
    THEN DAdd(mulexp10(L.result[1], NetExponents(L)[1].v),
              mulexp10(L.result[2], NetExponents(L)[2].v))
    ELSE mulexp10(L.result[1], NetExponents(L)[1].v)

\* (the result, were the sign not applied)
FiniteResultUnsigned(L, r) == [class |-> ClassOf(r), neg |-> FALSE, val |-> r]

\* return isNegative ? -r : r
FiniteResult(L, r) == [class |-> ClassOf(r), neg |-> L.isNegative, val |-> r]

\* the arithmetic of lines 216-217 is undefined: a net exponent leaves the
\* range of int, or mulexp10 negates INT_MIN
FiniteResultUB(L) ==
    \/ NetExponents(L)[1].ub
    \/ (NetExponents(L)[1].v = MinInt32 /\ L.result[1] # DZero)
    \/ /\ L.decPointIndex # 0
       /\ \/ NetExponents(L)[2].ub
          \/ (NetExponents(L)[2].v = MinInt32 /\ L.result[2] # DZero)

\* (the caller's cursor, were the parser to advance it in place)
CallerCursorAdvanced(t, s) == s

\* The cursor the caller passed in, after the call: the parameter is a
\* const CharPointerType&, and the parser advances s, a copy of it
CallerCursor(t, s) == t

\* getDoubleValue (text): the returned double ret, the locals before the
\* lanes are flushed for the last time (pre) and at the return (loc), the
\* caller's cursor after the call, the highest position read, and whether
\* and where undefined behaviour was met
getDoubleValue(m, t) ==
    LET s0 == findEndOfWhitespace(m, t)
        c0 == Deref(m, s0)
        s1 == IF c0 = CH_MINUS \/ c0 = CH_PLUS THEN s0 + 1 ELSE s0
        c == Deref(m, s1)
        L0 == InitLocals(s1, s1, c0 = CH_MINUS)
        look == IF c = CH_n \/ c = CH_N THEN LookAhead(m, s1, CH_a, CH_A, CH_n, CH_N)
                ELSE IF c = CH_i \/ c = CH_I THEN LookAhead(m, s1, CH_n, CH_N, CH_f, CH_F)
                ELSE [match |-> FALSE, hi |-> s1]
        Lk == [L0 EXCEPT !.hi = look.hi]
        \* the return, P and L the locals before the last flush and after
        \* the exponent
        Returned(P, L) ==
            [ret |-> FiniteResult(L, SumOfLanes(L)), pre |-> P, loc |-> L,
             text |-> CallerCursor(t, L.s), hi1 |-> L.hi,
             ub |-> L.ub \/ FiniteResultUB(L),
             ubHi |-> IF L.ub THEN L.ubHi
                      ELSE IF FiniteResultUB(L) THEN L.hi ELSE 0]
        Scanned(P) == Returned(P, ParseExponent(m, FlushLanes(P)))
    IN IF look.match
       THEN [ret |-> IF c = CH_n \/ c = CH_N THEN NaNResult(Lk) ELSE InfResult(Lk),
             pre |-> Lk, loc |-> Lk, text |-> CallerCursor(t, Lk.s),
             hi1 |-> Lk.hi, ub |-> FALSE, ubHi |-> 0]
       ELSE Scanned(ScanMantissa(m, Lk))
---------------------------------------------------------------------------
(* getIntValue <IntType>, IntType a signed integer of w bits.  For w below *)
(* 32 the arithmetic is done in int and converted back to IntType, which   *)
(* wraps; for w = 32 it is the arithmetic of int, undefined on overflow.   *)

\* the for (;;) loop: c = s.getAndAdvance(); fold while c is a digit
\* x is [v, s, hi, ub, ubHi]
RECURSIVE IntLoop(_, _, _)
IntLoop(m, x, w) ==
    LET c == Deref(m, x.s)
    IN IF c >= CH_0 /\ c <= CH_9
       THEN LET over == w = 32 /\ MulAddOverflows(x.v, c - CH_0)
            IN IntLoop(m, [v |-> WrapMulAdd(x.v, c - CH_0, w),
                           s |-> x.s + 1, hi |-> x.s,
                           ub |-> x.ub \/ over,
                           ubHi |-> IF over /\ ~x.ub THEN x.s ELSE x.ubHi], w)
       ELSE [x EXCEPT !.s = x.s + 1, !.hi = x.s]

\* const bool isNeg = *s == '-'
IsNegInt(c) == c = CH_MINUS

\* return isNeg ? -v : v
IntResult(isNeg, v, w) == IF isNeg THEN WrapNeg(v, w) ELSE v

\* getIntValue (text): the returned value ret, the private cursor s at the
\* return, the caller's cursor after the call, the highest position read,
\* and whether and where undefined behaviour was met
getIntValue(m, t, w) ==
    LET s0 == findEndOfWhitespace(m, t)
        isNeg == IsNegInt(Deref(m, s0))
        s1 == IF isNeg THEN s0 + 1 ELSE s0
        x == IntLoop(m, [v |-> 0, s |-> s1, hi |-> s0, ub |-> FALSE, ubHi |-> 0], w)
        nub == isNeg /\ w = 32 /\ x.v = MinInt32
    IN [ret |-> IntResult(isNeg, x.v, w), s |-> x.s,
        text |-> CallerCursor(t, x.s), hi1 |-> x.hi,
        ub |-> x.ub \/ nub,
        ubHi |-> IF x.ub THEN x.ubHi ELSE IF nub THEN x.hi ELSE 0]

---------------------------------------------------------------------------
(* Comparison and search.  s1 and s2 are cursors p1 into m1 and p2 into    *)
(* m2; hi1 and hi2 are the highest positions read in each buffer (0 when   *)
(* none was read).                                                         *)

\* (the result, were the raw difference returned)
SignOfRaw(diff) == diff

\* diff < 0 ? -1 : 1
SignOf(diff) == IF diff < 0 THEN -1 ELSE 1

RECURSIVE compare(_, _, _, _)
compare(m1, p1, m2, p2) ==
    LET c1 == Deref(m1, p1)
        c2 == Deref(m2, p2)
        diff == c1 - c2
    IN IF diff # 0 THEN [ret |-> SignOf(diff), hi1 |-> p1, hi2 |-> p2]
       ELSE IF c1 = 0 THEN [ret |-> 0, hi1 |-> p1, hi2 |-> p2]
       ELSE compare(m1, p1 + 1, m2, p2 + 1)

RECURSIVE compareUpTo(_, _, _, _, _)
compareUpTo(m1, p1, m2, p2, maxChars) ==
    IF maxChars - 1 < 0 THEN [ret |-> 0, hi1 |-> p1 - 1, hi2 |-> p2 - 1]
    ELSE LET c1 == Deref(m1, p1)
             c2 == Deref(m2, p2)
             diff == c1 - c2
         IN IF diff # 0 THEN [ret |-> SignOf(diff), hi1 |-> p1, hi2 |-> p2]
            ELSE IF c1 = 0 THEN [ret |-> 0, hi1 |-> p1, hi2 |-> p2]
            ELSE compareUpTo(m1, p1 + 1, m2, p2 + 1, maxChars - 1)

RECURSIVE compareIgnoreCase(_, _, _, _)
compareIgnoreCase(m1, p1, m2, p2) ==
    LET c1 == toUpperCase(Deref(m1, p1))
        c2 == toUpperCase(Deref(m2, p2))
        diff == c1 - c2
    IN IF diff # 0 THEN [ret |-> SignOf(diff), hi1 |-> p1, hi2 |-> p2]
       ELSE IF c1 = 0 THEN [ret |-> 0, hi1 |-> p1, hi2 |-> p2]
       ELSE compareIgnoreCase(m1, p1 + 1, m2, p2 + 1)

RECURSIVE compareIgnoreCaseUpTo(_, _, _, _, _)
compareIgnoreCaseUpTo(m1, p1, m2, p2, maxChars) ==
    IF maxChars - 1 < 0 THEN [ret |-> 0, hi1 |-> p1 - 1, hi2 |-> p2 - 1]
    ELSE LET c1 == toUpperCase(Deref(m1, p1))
             c2 == toUpperCase(Deref(m2, p2))
             diff == c1 - c2
         IN IF diff # 0 THEN [ret |-> SignOf(diff), hi1 |-> p1, hi2 |-> p2]
            ELSE IF c1 = 0 THEN [ret |-> 0, hi1 |-> p1, hi2 |-> p2]
            ELSE compareIgnoreCaseUpTo(m1, p1 + 1, m2, p2 + 1, maxChars - 1)

\* (the match test, were it to compare the whole remaining haystack)
MatchesAtWhole(hay, p, needle, np, needleLength) == compare(hay, p, needle, np)

\* haystack.compareUpTo (needle, needleLength) == 0
MatchesAt(hay, p, needle, np, needleLength) ==
    compareUpTo(hay, p, needle, np, needleLength)

\* the for (;;) loop of indexOf, the haystack cursor at p, index code
\* points from where it started
RECURSIVE IndexLoop(_, _, _, _, _, _, _)
IndexLoop(hay, p, needle, np, needleLength, index, hi) ==
    LET c == MatchesAt(hay, p, needle, np, needleLength)
        h == [hi1 |-> Max(hi.hi1, c.hi1), hi2 |-> Max(hi.hi2, c.hi2)]
    IN IF c.ret = 0 THEN [ret |-> index, hi1 |-> h.hi1, hi2 |-> h.hi2]
       ELSE IF Deref(hay, p) = 0
       THEN [ret |-> -1, hi1 |-> Max(h.hi1, p), hi2 |-> h.hi2]
       ELSE IndexLoop(hay, p + 1, needle, np, needleLength, index + 1,
                      [h EXCEPT !.hi1 = Max(h.hi1, p)])

indexOf(hay, p, needle, np) ==
    LET needleLength == lengthFrom(needle, np)
    IN IndexLoop(hay, p, needle, np, needleLength, 0,
                 [hi1 |-> 0, hi2 |-> np + needleLength])

RECURSIVE indexOfChar(_, _, _, _)
indexOfChar(m, p, charToFind, i) ==
    IF Deref(m, p) = 0 THEN [ret |-> -1, hi1 |-> p]
    ELSE IF Deref(m, p) = charToFind THEN [ret |-> i, hi1 |-> p]
    ELSE indexOfChar(m, p + 1, charToFind, i + 1)

RECURSIVE IndexOfLower(_, _, _, _)
IndexOfLower(m, p, lowered, i) ==
    IF Deref(m, p) = 0 THEN [ret |-> -1, hi1 |-> p]
    ELSE IF toLowerCase(Deref(m, p)) = lowered THEN [ret |-> i, hi1 |-> p]
    ELSE IndexOfLower(m, p + 1, lowered, i + 1)

indexOfCharIgnoreCase(m, p, charToFind) ==
    IndexOfLower(m, p, toLowerCase(charToFind), 0)

---------------------------------------------------------------------------
(* The transcoding copies.  dest is the sequence of code points written,   *)
(* each taking getBytesRequiredFor(e, c) bytes of the destination.         *)

RECURSIVE copyAndAdvance(_, _, _)
copyAndAdvance(m, p, dest) ==
    LET c == Deref(m, p)
    IN IF c # 0 THEN copyAndAdvance(m, p + 1, Append(dest, c))
       ELSE [dest |-> Append(dest, c), hi1 |-> p]

\* (the budget test, were it made before the bytes are deducted)
OutOfBudgetLate(maxBytes, bytesNeeded) == maxBytes < 0

\* maxBytes -= bytesNeeded; if (maxBytes < 0) break
OutOfBudget(maxBytes, bytesNeeded) == maxBytes - bytesNeeded < 0

RECURSIVE CopyBytesLoop(_, _, _, _, _, _)
CopyBytesLoop(m, p, e, maxBytes, numBytesDone, dest) ==
    LET c == Deref(m, p)
        bytesNeeded == getBytesRequiredFor(e, c)
    IN IF OutOfBudget(maxBytes, bytesNeeded)
       THEN [ret |-> numBytesDone, dest |-> dest, hi1 |-> p]
       ELSE IF c = 0
       THEN [ret |-> numBytesDone + bytesNeeded, dest |-> Append(dest, c), hi1 |-> p]
       ELSE CopyBytesLoop(m, p + 1, e, maxBytes - bytesNeeded,
                          numBytesDone + bytesNeeded, Append(dest, c))

copyAndAdvanceUpToBytes(m, p, e, maxBytes) ==
    CopyBytesLoop(m, p, e, maxBytes, 0, <<>>)

RECURSIVE copyAndAdvanceUpToNumChars(_, _, _, _)
copyAndAdvanceUpToNumChars(m, p, maxChars, dest) ==
    IF maxChars - 1 < 0 THEN [dest |-> dest, hi1 |-> p - 1]
    ELSE LET c == Deref(m, p)
         IN IF c = 0 THEN [dest |-> Append(dest, c), hi1 |-> p]
            ELSE copyAndAdvanceUpToNumChars(m, p + 1, maxChars - 1, Append(dest, c))

---------------------------------------------------------------------------
(* The inputs.                                                             *)

MaxShort == 3       \* code points of a short numeric text after its prefix
MaxDigits == 20     \* digits of a long numeric token
MaxHay == 3         \* code points of a haystack / first text
MaxNeedle == 2      \* code points of a needle / second text
MaxCount == 3       \* maxChars of the bounded operations
MaxCopyLen == 3     \* code points of a text to copy
MaxBytes == 9       \* maxBytes of copyAndAdvanceUpToBytes

Strings(A, n) == UNION {[1..k -> A] : k \in 0..n}

\* a buffer: the text, the terminator, and the memory behind it
Buf(t) == t \o <<0>> \o <<CH_9, CH_n>>

Zeros(k) == [i \in 1..k |-> 0]

\* the characters of a sequence of decimal digits
Dig(ds) == [i \in DOMAIN ds |-> CH_0 + ds[i]]

Prefixes == {<<>>, <<CH_SPACE>>, <<CH_MINUS>>, <<CH_TAB, CH_MINUS>>}

WordPrefixes == {<<>>, <<CH_SPACE>>, <<CH_MINUS>>, <<CH_PLUS>>}

ShortAlphabet == {CH_0, CH_0 + 1, CH_DOT, CH_e, CH_MINUS, CH_PLUS, 120}

ShortTexts == {p \o c : p \in Prefixes, c \in Strings(ShortAlphabet, MaxShort)}

\* nan, inf and their near misses, in either letter case
WordTexts ==
    LET full == {<<a, b, c>> : a \in {CH_n, CH_N, CH_i, CH_I},
                               b \in {CH_a, CH_A, CH_n, CH_N, 120},
                               c \in {CH_n, CH_N, CH_f, CH_F, 120}}
        cut == {SubSeq(w, 1, k) : w \in full, k \in 1..3}
        tail == {<<>>, <<CH_0 + 1>>}
    IN {p \o w \o x : p \in WordPrefixes, w \in cut, x \in tail}

\* the k-th significant digit of a long token
DigitAt(pat, k, d17, d18) ==
    IF k = maxSignificantDigits THEN d17
    ELSE IF k = maxSignificantDigits + 1 THEN d18
    ELSE IF pat = 1 THEN ((k - 1) % 9) + 1
    ELSE IF pat = 2 THEN 9
    ELSE IF k = 1 THEN 1 ELSE 0

\* where the decimal point of a token of n digits may stand: after dp
\* digits, or nowhere (-1)
DotPlaces(n) == {-1} \cup ({0, 1, 9, 10, 16, 17, 18, n - 1, n} \cap (0..n))

LongTextsOf(n) ==
    {  LET ds == [k \in 1..n |-> DigitAt(pat, k, d17, d18)]
           ip == Dig(Zeros(lz) \o SubSeq(ds, 1, IF dp < 0 THEN n ELSE dp))
           fp == IF dp < 0 THEN <<>>
                 ELSE <<CH_DOT>> \o Dig(Zeros(2 * lz) \o SubSeq(ds, dp + 1, n))
       IN sg \o ip \o fp \o ex
       : dp \in DotPlaces(n), lz \in 0..1, pat \in 1..3,
         d17 \in {2, 9}, d18 \in {4, 5, 6},
         sg \in {<<>>, <<CH_MINUS>>}, ex \in {<<>>, <<CH_e, CH_MINUS, CH_0 + 3>>} }

LongTexts == UNION {LongTextsOf(n) : n \in 0..MaxDigits}

\* texts at the edges of the 8-, 16- and 32-bit ranges
IntTexts ==
    { Dig(<<1, 2, 7>>), Dig(<<1, 2, 8>>), Dig(<<2, 5, 6>>),
      <<CH_MINUS>> \o Dig(<<1, 2, 8>>), <<CH_MINUS>> \o Dig(<<1, 2, 9>>),
      Dig(<<3, 2, 7, 6, 7>>), Dig(<<3, 2, 7, 6, 8>>), Dig(<<6, 5, 5, 3, 6>>),
      <<CH_MINUS>> \o Dig(<<3, 2, 7, 6, 8>>),
      Dig(<<2, 1, 4, 7, 4, 8, 3, 6, 4, 7>>), Dig(<<2, 1, 4, 7, 4, 8, 3, 6, 4, 8>>),
      <<CH_MINUS>> \o Dig(<<2, 1, 4, 7, 4, 8, 3, 6, 4, 8>>),
      <<CH_MINUS>> \o Dig(<<2, 1, 4, 7, 4, 8, 3, 6, 4, 9>>),
      Dig(<<4, 2, 9, 4, 9, 6, 7, 2, 9, 5>>), Dig(<<4, 2, 9, 4, 9, 6, 7, 2, 9, 6>>),
      <<CH_SPACE>> \o Dig(<<4, 2>>) \o <<120>>,
      <<CH_PLUS>> \o Dig(<<2, 1, 4, 7, 4, 8, 3, 6, 4, 8>>) }

\* a mantissa, the exponent marker, a sign and the digits of the exponent
ExpText(mant, sign, ds) == mant \o <<CH_e>> \o sign \o Dig(ds)

\* exponents at the edges of int and of the range of a double, and decimal
\* fractions that no double holds exactly
EdgeTexts ==
    { ExpText(Dig(<<1>>), <<>>, <<4, 2, 9, 4, 9, 6, 7, 2, 9, 7>>),
      ExpText(Dig(<<1>>), <<CH_MINUS>>, <<4, 2, 9, 4, 9, 6, 7, 2, 9, 7>>),
      ExpText(Dig(<<1>>), <<>>, <<9, 9, 9, 9, 9, 9, 9, 9, 9, 9>>),
      ExpText(Dig(<<1>>), <<>>, <<2, 1, 4, 7, 4, 8, 3, 6, 4, 8>>),
      ExpText(<<CH_MINUS>> \o Dig(<<1>>), <<CH_MINUS>>, <<2, 1, 4, 7, 4, 8, 3, 6, 4, 8>>),
      ExpText(Dig(<<1>>), <<>>, <<2, 1, 4, 7, 4, 8, 3, 6, 4, 7>>),
      ExpText(Dig(<<1>>) \o <<CH_DOT>> \o Dig(<<5>>), <<CH_MINUS>>,
              <<2, 1, 4, 7, 4, 8, 3, 6, 4, 7>>),
      ExpText(Dig(<<1>>), <<>>, <<4, 0, 0>>),
      ExpText(<<CH_MINUS>> \o Dig(<<1>>), <<CH_PLUS>>, <<4, 0, 0>>),
      ExpText(Dig(<<1>>), <<CH_MINUS>>, <<4, 0, 0>>),
      ExpText(Dig(<<1>>), <<CH_MINUS>>, <<3, 2, 0>>),
      ExpText(Dig(<<1>>), <<>>, <<3, 0, 8>>),
      ExpText(Dig(<<1>>), <<>>, <<2, 3>>),
      ExpText(Dig(<<1>>) \o <<CH_DOT>> \o Dig(<<2>>), <<CH_MINUS>>, <<3>>),
      ExpText(Dig(<<9>>) \o <<CH_DOT>> \o Dig(<<9>>), <<CH_MINUS>>, <<3>>),
      ExpText(Dig(<<1, 2, 3, 4, 5>>) \o <<CH_DOT>> \o Dig(<<6>>), <<CH_MINUS>>, <<3>>),
      Dig(<<1>>) \o <<CH_DOT>> \o Dig(<<2, 3, 4, 5, 6, 7, 8, 9>>) }

NumTexts == ShortTexts \cup WordTexts \cup LongTexts \cup IntTexts \cup EdgeTexts

LexAlphabet == {CH_a, CH_a + 1, CH_A}

LexHays ==
    Strings(LexAlphabet, MaxHay)
      \cup {<<CH_SPACE>> \o x : x \in Strings(LexAlphabet, 1)}
      \cup {<<CH_SPACE, CH_TAB>> \o x : x \in Strings(LexAlphabet, 1)}

LexNeedles == Strings(LexAlphabet, MaxNeedle)

\* code points of 1, 2, 3 and 4 bytes in UTF-8
CopyAlphabet == {CH_A, 233, 8364, 128512}

CopyTexts == Strings(CopyAlphabet, MaxCopyLen)

Encodings == {8, 16, 32}

Widths == {8, 16, 32}

---------------------------------------------------------------------------
(* The state machine: an input is drawn, one operation is applied to it.   *)

NoOut == [op |-> "none"]

Init ==
    /\ pc = "ready" /\ text = 1 /\ arg = 0 /\ enc = 0 /\ out = NoOut
    /\ \/ kind = "num" /\ mem \in {Buf(t) : t \in NumTexts} /\ mem2 = <<0>>
       \/ kind = "lex" /\ mem \in {Buf(t) : t \in LexHays}
                       /\ mem2 \in {Buf(t) : t \in LexNeedles}
       \/ kind = "copy" /\ mem \in {Buf(t) : t \in CopyTexts} /\ mem2 = <<0>>

\* the operation op returns r; a and e are its integer argument and encoding
Return(op, r, a, e) ==
    /\ pc' = op /\ out' = r /\ arg' = a /\ enc' = e
    /\ UNCHANGED <<kind, mem, mem2>>

\* the operation op does not return: it met undefined behaviour having read
\* up to position hi, and the build traps
Abort(op, hi, a) ==
    /\ Return("abort", [op |-> op, hi1 |-> hi], a, 0)
    /\ UNCHANGED text

\* what a call of getIntValue may return once its arithmetic is undefined:
\* the wrapped value ret, or another value of IntType
UndefinedInts(ret) == {ret, 0, MaxInt32}

\* what a call of getDoubleValue may return once the arithmetic of its
\* exponent is undefined: the double ret the wrapped exponent gives, or
\* the double another exponent gives
UndefinedDoubles(ret) ==
    {ret, [ret EXCEPT !.class = "num", !.val = DZero],
          [ret EXCEPT !.class = "inf", !.val = DInf]}

GetDoubleValue ==
    /\ pc = "ready" /\ kind = "num"
    /\ \E r \in {getDoubleValue(mem, text)} :
          \/ text' = r.text /\ Return("getDoubleValue", r, 0, 0)
          \/ /\ r.ub
             /\ \/ \E v \in UndefinedDoubles(r.ret) :
                      text' = r.text
                        /\ Return("getDoubleValue", [r EXCEPT !.ret = v], 0, 0)
                \/ Abort("getDoubleValue", r.ubHi, 0)

GetIntValue ==
    /\ pc = "ready" /\ kind = "num"
    /\ \E w \in Widths : \E r \in {getIntValue(mem, text, w)} :
            \/ text' = r.text /\ Return("getIntValue", r, w, 0)
            \/ /\ r.ub
               /\ \/ \E v \in UndefinedInts(r.ret) :
                        text' = r.text /\ Return("getIntValue", [r EXCEPT !.ret = v], w, 0)
                  \/ Abort("getIntValue", r.ubHi, w)

Compare ==
    /\ pc = "ready" /\ kind = "lex"
    /\ Return("compare", compare(mem, text, mem2, 1), 0, 0)
    /\ UNCHANGED text

CompareUpTo ==
    /\ pc = "ready" /\ kind = "lex"
    /\ \E n \in 0..MaxCount :
         Return("compareUpTo", compareUpTo(mem, text, mem2, 1, n), n, 0)
    /\ UNCHANGED text

CompareIgnoreCase ==
    /\ pc = "ready" /\ kind = "lex"
    /\ Return("compareIgnoreCase", compareIgnoreCase(mem, text, mem2, 1), 0, 0)
    /\ UNCHANGED text

CompareIgnoreCaseUpTo ==
    /\ pc = "ready" /\ kind = "lex"
    /\ \E n \in 0..MaxCount :
         Return("compareIgnoreCaseUpTo",
                compareIgnoreCaseUpTo(mem, text, mem2, 1, n), n, 0)
    /\ UNCHANGED text

IndexOf ==
    /\ pc = "ready" /\ kind = "lex"
    /\ Return("indexOf", indexOf(mem, text, mem2, 1), 0, 0)
    /\ UNCHANGED text

IndexOfChar ==
    /\ pc = "ready" /\ kind = "lex"
    /\ \E c \in LexAlphabet :
         Return("indexOfChar", indexOfChar(mem, text, c, 0), c, 0)
    /\ UNCHANGED text

IndexOfCharIgnoreCase ==
    /\ pc = "ready" /\ kind = "lex"
    /\ \E c \in LexAlphabet :
         Return("indexOfCharIgnoreCase", indexOfCharIgnoreCase(mem, text, c), c, 0)
    /\ UNCHANGED text

FindEndOfWhitespace ==
    /\ pc = "ready" /\ kind = "lex"
    /\ LET p == findEndOfWhitespace(mem, text)
       IN Return("findEndOfWhitespace", [ret |-> p, hi1 |-> p], 0, 0)
    /\ UNCHANGED text

CopyAndAdvance ==
    /\ pc = "ready" /\ kind = "copy"
    /\ \E e \in Encodings :
         Return("copyAndAdvance", copyAndAdvance(mem, text, <<>>), 0, e)
    /\ UNCHANGED text

CopyAndAdvanceUpToBytes ==
    /\ pc = "ready" /\ kind = "copy"
    /\ \E e \in Encodings, n \in 0..MaxBytes :
         Return("copyAndAdvanceUpToBytes", copyAndAdvanceUpToBytes(mem, text, e, n), n, e)
    /\ UNCHANGED text

CopyAndAdvanceUpToNumChars ==
    /\ pc = "ready" /\ kind = "copy"
    /\ \E n \in 0..MaxCount :
         Return("copyAndAdvanceUpToNumChars",
                copyAndAdvanceUpToNumChars(mem, text, n, <<>>), n, 0)
    /\ UNCHANGED text

Next ==
    \/ GetDoubleValue
    \/ GetIntValue
    \/ Compare
    \/ CompareUpTo
    \/ CompareIgnoreCase
    \/ CompareIgnoreCaseUpTo
    \/ IndexOf
    \/ IndexOfChar
    \/ IndexOfCharIgnoreCase
    \/ FindEndOfWhitespace
    \/ CopyAndAdvance
    \/ CopyAndAdvanceUpToBytes
    \/ CopyAndAdvanceUpToNumChars

Spec == Init /\ [][Next]_vars

---------------------------------------------------------------------------
(* What a text is, read without the parsers: the shape of the numeric      *)
(* token at its start.                                                     *)

\* the first position at or after p whose code point does not satisfy P
RunEnd(m, p, P(_)) ==
    CHOOSE q \in p..(Len(m) + 1) :
        /\ \A k \in p..(q - 1) : P(m[k])
        /\ ~P(Deref(m, q))

\* the code points of the text, without and with the terminator
TextOf(m) == SubSeq(m, 1, TermIdx(m) - 1)
TextWithTerm(m) == SubSeq(m, 1, TermIdx(m))

\* the decimal digits written at positions a..b-1
DigitsAt(m, a, b) == [i \in 1..(b - a) |-> m[a + i - 1] - CH_0]

RECURSIVE StripLeading(_)
StripLeading(ds) ==
    IF ds # <<>> /\ Head(ds) = 0 THEN StripLeading(Tail(ds)) ELSE ds

\* the value of a sequence of decimal digits that is at most INT_MAX
RECURSIVE SmallValue(_)
SmallValue(ds) ==
    IF ds = <<>> THEN 0 ELSE SmallValue(SubSeq(ds, 1, Len(ds) - 1)) * 10 + ds[Len(ds)]

\* the digits ds, without leading zeros, write a number that is at most INT_MAX
FitsInt(ds) ==
    LET top == <<2, 1, 4, 7, 4, 8, 3, 6, 4, 7>>
    IN \/ Len(ds) < Len(top)
       \/ /\ Len(ds) = Len(top)
          /\ \A i \in 1..Len(ds) :
                ds[i] > top[i] => \E j \in 1..(i - 1) : ds[j] < top[j]

\* the natural number written by the decimal digits ds[x.i..], after the
\* number x.n written by the digits before them
RECURSIVE NatOfDigitsFrom(_, _)
NatOfDigitsFrom(ds, x) ==
    IF x.i > Len(ds) THEN x.n
    ELSE NatOfDigitsFrom(ds, [i |-> x.i + 1,
                              n |-> BAdd(BMulSmall(x.n, 10), NatOfInt(ds[x.i]))])

\* the natural number written by a sequence of decimal digits
NatOfDigits(ds) == NatOfDigitsFrom(ds, [i |-> 1, n |-> <<>>])

\* x.n * 10^x.k as a natural number
RECURSIVE TimesPow10(_)
TimesPow10(x) ==
    IF x.k = 0 THEN x.n ELSE TimesPow10([k |-> x.k - 1, n |-> BMulSmall(x.n, 10)])

\* 10^k as a natural number
Pow10Nat(k) == TimesPow10([k |-> k, n |-> <<1>>])

\* the natural number a double holds, for a double whose value is one
IntegerOf(x) == IF x.e >= 0 THEN BShl(x.m, x.e) ELSE BShr(x.m, -x.e)

IsInteger(x) == x.k = "fin" /\ (x.e >= 0 \/ ~LowBitsSet(x.m, -x.e))

\* lane d of the locals L read in the arithmetic of the integers: what
\* mulexp10 (result[d], exponentAccumulator[d]) + accumulator[d] stands for
ExactLane(L, d) ==
    IF L.result[d] = DZero THEN IntegerOf(L.accumulator[d])
    ELSE BAdd(BMul(IntegerOf(L.result[d]), Pow10Nat(L.exponentAccumulator[d])),
              IntegerOf(L.accumulator[d]))

\* the token at the start of the text: whitespace, sign, integer digits,
\* point and fraction digits, and (when a digit was found) the exponent
Token(m) ==
    LET ws == RunEnd(m, 1, isWhitespace)
        signed == Deref(m, ws) = CH_MINUS \/ Deref(m, ws) = CH_PLUS
        a == IF signed THEN ws + 1 ELSE ws
        b == RunEnd(m, a, isDigit)
        dot == Deref(m, b) = CH_DOT
        c == IF dot THEN RunEnd(m, b + 1, isDigit) ELSE b
        int == DigitsAt(m, a, b)
        frac == IF dot THEN DigitsAt(m, b + 1, c) ELSE <<>>
        digits == int # <<>> \/ frac # <<>>
        marker == digits /\ (Deref(m, c) = CH_e \/ Deref(m, c) = CH_E)
        esigned == marker /\ (Deref(m, c + 1) = CH_MINUS \/ Deref(m, c + 1) = CH_PLUS)
        x == IF ~marker THEN c ELSE IF esigned THEN c + 2 ELSE c + 1
        y == IF marker THEN RunEnd(m, x, isDigit) ELSE c
        eds == StripLeading(DigitsAt(m, x, y))
        fits == FitsInt(eds)
        ev == IF fits THEN SmallValue(eds) ELSE 0
    IN [ start |-> a, minus |-> Deref(m, ws) = CH_MINUS, signed |-> signed,
         int |-> int, frac |-> frac, dot |-> dot, digits |-> digits,
         expFits |-> fits,
         exp |-> IF esigned /\ Deref(m, c + 1) = CH_MINUS THEN -ev ELSE ev,
         end |-> y,
         sig |-> StripLeading(int \o frac),
         lead |-> Len(int \o frac) - Len(StripLeading(int \o frac)) ]

\* the three code points after the optional sign spell w, in any letter case
Spells(m, w) ==
    LET a == Token(m).start
    IN \A k \in 1..3 : toLowerCase(Deref(m, a + k - 1)) = w[k]

IsNaNToken(m) == Spells(m, <<CH_n, CH_a, CH_n>>)
IsInfToken(m) == Spells(m, <<CH_i, CH_n, CH_f>>)

---------------------------------------------------------------------------
(* getIntValue against the arithmetic of the integers.                     *)

\* schoolbook long division of the decimal ds by the small divisor H
RECURSIVE LongDiv(_, _, _, _, _)
LongDiv(ds, i, H, rem, q) ==
    IF i > Len(ds) THEN [q |-> q, r |-> rem]
    ELSE LET t == rem * 10 + ds[i]
         IN LongDiv(ds, i + 1, H, t % H, Append(q, t \div H))

\* the integer token at the start of the text: whitespace, an optional '-',
\* the maximal run of digits
IntToken(m) ==
    LET ws == RunEnd(m, 1, isWhitespace)
        minus == Deref(m, ws) = CH_MINUS
        a == IF minus THEN ws + 1 ELSE ws
    IN [minus |-> minus, digits |-> DigitsAt(m, a, RunEnd(m, a, isDigit))]

\* v, a signed integer of w bits, is congruent modulo 2^w to N (minus =
\* FALSE) or to -N (minus = TRUE), N the natural number with decimal digits ds
CongruentTo(v, ds, minus, w) ==
    LET H == Pow2(w \div 2)
        d1 == LongDiv(ds, 1, H, 0, <<>>)
        nlo == d1.r
        nhi == LongDiv(d1.q, 1, H, 0, <<>>).r
        vlo == v % H
        vhi == (v \div H) % H
    IN /\ (v \div H) >= -(H \div 2) /\ (v \div H) < (H \div 2)
       /\ IF minus
          THEN /\ (vlo + nlo) % H = 0
               /\ (vhi + nhi + ((vlo + nlo) \div H)) % H = 0
          ELSE vlo = nlo /\ vhi = nhi

\* C1 as stated: getIntValue returns, as a signed w-bit integer, the number
\* written by the maximal run of digits after the whitespace and an optional
\* '-', reduced modulo 2^w and negated modulo 2^w after a '-': overflow
\* wraps.  "2147483648" read at 32 bits is the minimum 32-bit value; a
\* leading '+' or no digit at all gives 0.
C1_IntWraps ==
    /\ pc = "abort" => out.op # "getIntValue"
    /\ pc = "getIntValue" =>
        LET k == IntToken(mem)
        IN /\ CongruentTo(out.ret, k.digits, k.minus, arg)
           /\ (k.digits = <<>> => out.ret = 0)
           /\ (TextOf(mem) = Dig(<<2, 1, 4, 7, 4, 8, 3, 6, 4, 8>>) /\ arg = 32
                 => out.ret = MinInt32)
           /\ (Deref(mem, RunEnd(mem, 1, isWhitespace)) = CH_PLUS => out.ret = 0)

\* C2 as stated: an optional sign followed by inf, in any letter case, gives
\* an infinity with the sign of the token.
C2_InfCarriesSign ==
    (pc = "getDoubleValue" /\ IsInfToken(mem)) =>
        /\ out.ret.class = "inf"
        /\ out.ret.neg = Token(mem).minus

\* C3 as stated: the caller's cursor ends at the first code point that is
\* not part of the numeric token.
C3_CallerCursorAdvanced ==
    pc \in {"getDoubleValue", "getIntValue"} => text = Token(mem).end

\* C3, amended: the caller's cursor is where it was; it is the private copy
\* s of getDoubleValue that ends at the first code point not consumed as
\* part of the numeric token.
C3_CallerCursorKept ==
    /\ pc \in {"getDoubleValue", "getIntValue"} => text = 1
    /\ pc = "getDoubleValue" => out.loc.s = Token(mem).end

C3_Witness ==
    /\ pc = "getDoubleValue" /\ text = 1
    /\ Token(mem).dot /\ Token(mem).exp < 0 /\ Token(mem).minus
    /\ out.loc.s = TermIdx(mem)

\* C4: with no mantissa digit and no nan/inf token, getDoubleValue returns
\* (it never fails) and returns zero, negative exactly when a '-' was
\* consumed; the caller's cursor of a text with no numeric prefix is unmoved.
C4_NoDigitsIsZero ==
    (~Token(mem).digits /\ ~IsNaNToken(mem) /\ ~IsInfToken(mem)) =>
        /\ pc = "abort" => out.op # "getDoubleValue"
        /\ pc = "getDoubleValue" =>
            /\ out.ret.class = "num"
            /\ out.ret.val = DZero
            /\ out.ret.neg = Token(mem).minus
            /\ (Token(mem).end = 1 => text = 1)

C4_Witness ==
    /\ pc = "getDoubleValue" /\ ~Token(mem).digits
    /\ Token(mem).minus /\ Deref(mem, Token(mem).start) = CH_e
    /\ out.ret.neg /\ out.ret.val = DZero

\* C5: indexOf returns the least offset at which the whole needle stands in
\* the haystack, -1 exactly when there is none; the empty needle is found
\* at offset 0.
C5_IndexOfLeast ==
    pc = "indexOf" =>
        LET hay == TextOf(mem)
            needle == TextOf(mem2)
            At(i) == /\ i + Len(needle) <= Len(hay)
                     /\ \A k \in 1..Len(needle) : hay[i + k] = needle[k]
            found == {i \in 0..Len(hay) : At(i)}
        IN /\ (found = {} <=> out.ret = -1)
           /\ (found # {} => out.ret \in found /\ \A i \in found : out.ret <= i)
           /\ (needle = <<>> => out.ret = 0)

C5_Witness ==
    /\ pc = "indexOf" /\ out.ret = 2 /\ Len(TextOf(mem2)) = 1
    /\ Len(TextOf(mem)) = 3

---------------------------------------------------------------------------
\* the bytes a sequence of code points takes in encoding e
RECURSIVE BytesOf(_, _)
BytesOf(e, cs) ==
    IF cs = <<>> THEN 0 ELSE getBytesRequiredFor(e, Head(cs)) + BytesOf(e, Tail(cs))

\* C6: copyAndAdvanceUpToBytes writes a prefix of the source (terminator
\* included) that takes at most maxBytes bytes, stops only at the first
\* code point that no longer fits or after the terminator, and returns the
\* number of bytes it wrote.
C6_CopyWithinBudget ==
    pc = "copyAndAdvanceUpToBytes" =>
        LET src == TextWithTerm(mem)
            n == Len(out.dest)
        IN /\ n <= Len(src) /\ out.dest = SubSeq(src, 1, n)
           /\ BytesOf(enc, out.dest) <= arg
           /\ out.ret = BytesOf(enc, out.dest)
           /\ out.ret >= 0 /\ out.ret <= arg
           /\ (n < Len(src) =>
                 BytesOf(enc, out.dest) + getBytesRequiredFor(enc, src[n + 1]) > arg)

C6_Witness ==
    /\ pc = "copyAndAdvanceUpToBytes"
    /\ out.ret > 0 /\ out.ret < arg
    /\ out.dest[Len(out.dest)] # 0

\* the sign of the first pair of code points in which two texts differ,
\* terminators included; 0 when there is none
FirstDifference(a, b) ==
    IF a = b THEN 0
    ELSE LET k == CHOOSE i \in 1..Min(Len(a), Len(b)) :
                      a[i] # b[i] /\ \A j \in 1..(i - 1) : a[j] = b[j]
         IN IF a[k] < b[k] THEN -1 ELSE 1

\* C7: compare returns -1, 0 or 1, the sign of the first differing pair of
\* code points (a proper prefix is less); a text compares equal to itself
\* and swapping the arguments negates the result.
C7_CompareOrder ==
    pc = "compare" =>
        /\ out.ret \in {-1, 0, 1}
        /\ out.ret = FirstDifference(TextWithTerm(mem), TextWithTerm(mem2))
        /\ (TextOf(mem) = TextOf(mem2) => out.ret = 0)
        /\ compare(mem2, 1, mem, 1).ret = -out.ret

C7_Witness ==
    /\ pc = "compare" /\ out.ret = -1
    /\ Len(TextOf(mem)) < Len(TextOf(mem2))
    /\ TextOf(mem) = SubSeq(TextOf(mem2), 1, Len(TextOf(mem)))
    /\ TextOf(mem) # <<>>

\* C8 as stated: for a decimal token of at most 17 significant digits the
\* lanes, read in the arithmetic of the integers, are exact: lane 0 is the
\* integer written by the integer digits, lane 1 the integer written by the
\* fraction digits, exponentAdjustment[1] the number of fraction digits,
\* exponentAdjustment[0] is 0, and the returned quantity
\* sign * (lane0 * 10^(exponent + exponentAdjustment[0])
\*         + lane1 * 10^(exponent - exponentAdjustment[1]))
\* is the exact decimal value of the token: exponent is the exponent the
\* token writes, the sign is its sign, and the call returns.
C8_LanesExact ==
    (Token(mem).digits /\ Len(Token(mem).sig) <= maxSignificantDigits) =>
        /\ pc = "abort" => out.op # "getDoubleValue"
        /\ pc = "getDoubleValue" =>
            LET k == Token(mem)
            IN /\ ExactLane(out.pre, 1) = NatOfDigits(k.int)
               /\ ExactLane(out.pre, 2) = NatOfDigits(k.frac)
               /\ out.loc.exponentAdjustment = <<0, Len(k.frac)>>
               /\ k.expFits /\ out.loc.exponent = k.exp
               /\ ~NetExponents(out.loc)[1].ub /\ ~NetExponents(out.loc)[2].ub
               /\ out.ret.neg = k.minus

\* C9: for a token of more than 17 significant digits exactly 17 digits are
\* folded; the mantissa held by the two lanes is the first 17 significant
\* digits, one unit in the last place higher iff the 18th digit is 6 or
\* more, or is 5 with the 17th odd; exponentAdjustment[0] counts the
\* integer digits from the 18th significant digit on, exponentAdjustment[1]
\* the retained fraction digits only; the digits after the 18th have no
\* other effect.
C9_DigitCap ==
    (pc = "getDoubleValue" /\ Len(Token(mem).sig) > maxSignificantDigits) =>
        LET k == Token(mem)
            d17 == k.sig[maxSignificantDigits]
            d18 == k.sig[maxSignificantDigits + 1]
            up == d18 >= 6 \/ (d18 = 5 /\ d17 % 2 = 1)
            first == NatOfDigits(SubSeq(k.sig, 1, maxSignificantDigits))
            mant == IF up THEN BAdd(first, <<1>>) ELSE first
            kept == k.lead + maxSignificantDigits
            adj0 == Max(0, Len(k.int) - kept)
            adj1 == Max(0, kept - Len(k.int))
        IN /\ out.loc.numSignificantDigits = maxSignificantDigits + 1
           /\ out.loc.exponentAdjustment = <<adj0, adj1>>
           /\ IsInteger(out.pre.accumulator[1]) /\ IsInteger(out.pre.accumulator[2])
           /\ BAdd(BMul(ExactLane(out.pre, 1), Pow10Nat(adj1)),
                   ExactLane(out.pre, 2)) = mant
           /\ out.ret.neg = k.minus

C9_Witness ==
    /\ pc = "getDoubleValue"
    /\ Len(Token(mem).sig) = maxSignificantDigits + 3
    /\ Token(mem).sig[maxSignificantDigits + 1] = 5
    /\ Token(mem).sig[maxSignificantDigits] = 9
    /\ Token(mem).sig[1] = 9
    /\ Len(Token(mem).int) = maxSignificantDigits
    /\ ExactLane(out.pre, 2) = <<1>>

\* C10: no operation reads a source buffer behind its terminator: the
\* highest position read in each buffer is at most the terminator's.
C10_NoReadPastTerminator ==
    pc # "ready" =>
        /\ out.hi1 <= TermIdx(mem)
        /\ ("hi2" \in DOMAIN out => out.hi2 <= TermIdx(mem2))

C10_Witness ==
    /\ pc = "getDoubleValue"
    /\ TextOf(mem) = <<CH_MINUS, CH_n>>
    /\ out.hi1 = TermIdx(mem)

====
